---------------------------- MODULE Spec2Model ----------------------------
(***************************************************************************)
(* A model of tectonicdb's server (src/server.rs): the per-connection      *)
(* State with its Stores, the text command dispatcher gen_response, the    *)
(* record-line parser parse_line, and the .dtf files the Stores flush to.  *)
(*                                                                         *)
(* Text is modelled as it is processed: a line is a sequence of one        *)
(* character strings, so that the prefix tests, the slices and the         *)
(* character loop of parse_line are those of the source.                   *)
(***************************************************************************)
EXTENDS Integers, Sequences, FiniteSets, TLC

VARIABLES
    fs,      \* the dtf folder: file name -> file, for the files that exist
    state,   \* the State of the connected client (handle_client's `state`)
    alive,   \* the client's thread is in handle_client's loop
    fl,      \* the threads that flush concurrently (two Sessions), by step
    pl       \* the calls of parse_line: the line given and what it returned

vars == <<fs, state, alive, fl, pl>>

(***************************************************************************)
(* Bounds of the model.                                                    *)
(***************************************************************************)
\* Spec: ADD and bulk record lines are sent while the Stores of the Session
\* buffer fewer than MaxBuf updates in all
MaxBuf == 2
\* Spec: FLUSH and FLUSHALL are sent when the folder's files hold at most
\* MaxFile records in all afterwards
MaxFile == 2
\* SpecStore: the same two bounds
MaxStoreBuf == 3
MaxStoreFile == 3
\* SpecConc: the longest buffer of a Session that flushes
MaxConcBuf == 2
\* SpecReingest: the two bounds of Spec
MaxReBuf == 2
MaxReFile == 2
\* SpecParse: the calls of parse_line that follow one another
MaxCalls == 2

(***************************************************************************)
(* Text.                                                                   *)
(***************************************************************************)
Digits == {"0", "1", "2", "3", "4", "5", "6", "7", "8", "9"}

DigitVal(ch) ==
    CASE ch = "0" -> 0 [] ch = "1" -> 1 [] ch = "2" -> 2 [] ch = "3" -> 3
      [] ch = "4" -> 4 [] ch = "5" -> 5 [] ch = "6" -> 6 [] ch = "7" -> 7
      [] ch = "8" -> 8 [] ch = "9" -> 9

\* str.starts_with(prefix)
starts_with(string, prefix) ==
    /\ Len(string) >= Len(prefix)
    /\ SubSeq(string, 1, Len(prefix)) = prefix

\* &string[n..]
SliceFrom(string, n) == SubSeq(string, n + 1, Len(string))

\* str.ends_with(suffix)
ends_with(string, suffix) ==
    /\ Len(string) >= Len(suffix)
    /\ SubSeq(string, Len(string) - Len(suffix) + 1, Len(string)) = suffix

DTF_EXT == <<".", "d", "t", "f">>

DEFAULT == <<"d", "e", "f", "a", "u", "l", "t">>

\* the literal commands of gen_response's match
EMPTY    == <<>>
PING     == <<"P", "I", "N", "G">>
HELP     == <<"H", "E", "L", "P">>
INFO     == <<"I", "N", "F", "O">>
BULKADD  == <<"B", "U", "L", "K", "A", "D", "D">>
DDAKLUB  == <<"D", "D", "A", "K", "L", "U", "B">>
GETALL   == <<"G", "E", "T", "A", "L", "L">>
CLEAR    == <<"C", "L", "E", "A", "R">>
CLEARALL == <<"C", "L", "E", "A", "R", "A", "L", "L">>
FLUSH    == <<"F", "L", "U", "S", "H">>
FLUSHALL == <<"F", "L", "U", "S", "H", "A", "L", "L">>

\* the prefixes of gen_response's fallback arm
ADD_    == <<"A", "D", "D", " ">>
CREATE_ == <<"C", "R", "E", "A", "T", "E", " ">>
USE_    == <<"U", "S", "E", " ">>
GET_    == <<"G", "E", "T", " ">>

(***************************************************************************)
(* Numbers as Rust's str::parse reads them from parse_line's buf, which    *)
(* holds digits and, after the first field, decimal points.                *)
(***************************************************************************)
RECURSIVE DigitsValue(_)
DigitsValue(buf) ==
    IF buf = <<>> THEN 0
    ELSE 10 * DigitsValue(SubSeq(buf, 1, Len(buf) - 1)) + DigitVal(buf[Len(buf)])

Err == [tag |-> "Err"]
Ok(x) == [tag |-> "Ok", val |-> x]

\* buf.parse::<u64>() and buf.parse::<u32>(): one or more digits. The lines of
\* the model are too short for a value to exceed either width.
ParseUnsigned(buf) ==
    IF buf # <<>> /\ \A i \in 1..Len(buf) : buf[i] \in Digits
    THEN Ok(DigitsValue(buf))
    ELSE Err

\* the digits of buf, its decimal points dropped
RECURSIVE OnlyDigits(_)
OnlyDigits(buf) ==
    IF buf = <<>> THEN <<>>
    ELSE IF buf[1] \in Digits THEN <<buf[1]>> \o OnlyDigits(Tail(buf))
    ELSE OnlyDigits(Tail(buf))

\* a decimal m / 10^e with no trailing zero in its fraction
RECURSIVE Normal(_, _)
Normal(m, e) ==
    IF e > 0 /\ m % 10 = 0 THEN Normal(m \div 10, e - 1) ELSE [m |-> m, e |-> e]

\* buf.parse::<f32>(): digits with at most one decimal point, at least one digit.
\* The value is kept exactly, as mantissa and decimal exponent.
ParseF32(buf) ==
    LET dots == {i \in 1..Len(buf) : buf[i] = "."}
        ds   == OnlyDigits(buf)
    IN  IF Cardinality(dots) <= 1 /\ ds # <<>>
        THEN Ok(Normal(DigitsValue(ds),
                       IF dots = {} THEN 0 ELSE Len(buf) - (CHOOSE i \in dots : TRUE)))
        ELSE Err

\* num.parse::<i32>(): an optional sign and one or more digits
ParseI32(num) ==
    LET neg  == num # <<>> /\ num[1] = "-"
        body == IF num # <<>> /\ num[1] \in {"-", "+"} THEN Tail(num) ELSE num
        p    == ParseUnsigned(body)
    IN  IF p.tag = "Ok" THEN Ok(IF neg THEN 0 - p.val ELSE p.val) ELSE Err

(***************************************************************************)
(* dtf::Update and parse_line.                                             *)
(***************************************************************************)
\* the f32 -0.1 parse_line starts price and size with
MinusTenth == [m |-> -1, e |-> 1]

\* parse_line's initial `u`
BlankUpdate ==
    [ts |-> 0, seq |-> 0, is_bid |-> FALSE, is_trade |-> FALSE,
     price |-> MinusTenth, size |-> MinusTenth]

None == [tag |-> "None"]
Some(x) == [tag |-> "Some", val |-> x]
Panic == [tag |-> "Panic"]

\* the match on count with the arms of the two flags exchanged
StoreField_swapped(u, buf, count, most_current_bool) ==
    CASE count = 0 ->
           LET p == ParseUnsigned(buf)
           IN  IF p.tag = "Ok" THEN Some([u EXCEPT !.ts = p.val]) ELSE None
      [] count = 1 ->
           LET p == ParseUnsigned(buf)
           IN  IF p.tag = "Ok" THEN Some([u EXCEPT !.seq = p.val]) ELSE None
      [] count = 2 -> Some([u EXCEPT !.is_bid = most_current_bool])
      [] count = 3 -> Some([u EXCEPT !.is_trade = most_current_bool])
      [] count = 4 ->
           LET p == ParseF32(buf)
           IN  IF p.tag = "Ok" THEN Some([u EXCEPT !.price = p.val]) ELSE None
      [] count = 5 ->
           LET p == ParseF32(buf)
           IN  IF p.tag = "Ok" THEN Some([u EXCEPT !.size = p.val]) ELSE None
      [] OTHER -> Panic

\* the match on count at a `,` or `;`: the field just ended is stored in u
StoreField(u, buf, count, most_current_bool) ==
    CASE count = 0 ->
           LET p == ParseUnsigned(buf)
           IN  IF p.tag = "Ok" THEN Some([u EXCEPT !.ts = p.val]) ELSE None
      [] count = 1 ->
           LET p == ParseUnsigned(buf)
           IN  IF p.tag = "Ok" THEN Some([u EXCEPT !.seq = p.val]) ELSE None
      [] count = 2 -> Some([u EXCEPT !.is_trade = most_current_bool])
      [] count = 3 -> Some([u EXCEPT !.is_bid = most_current_bool])
      [] count = 4 ->
           LET p == ParseF32(buf)
           IN  IF p.tag = "Ok" THEN Some([u EXCEPT !.price = p.val]) ELSE None
      [] count = 5 ->
           LET p == ParseF32(buf)
           IN  IF p.tag = "Ok" THEN Some([u EXCEPT !.size = p.val]) ELSE None
      [] OTHER -> Panic

\* the loop `for ch in string.chars()`, from character i on
RECURSIVE ParseChars(_, _, _, _, _, _)
ParseChars(string, i, u, buf, count, most_current_bool) ==
    IF i > Len(string) THEN Some(u)
    ELSE LET ch == string[i] IN
         IF ch = "." /\ count = 0
         THEN ParseChars(string, i + 1, u, buf, count, most_current_bool)
         ELSE IF ch = "." /\ count # 0
         THEN ParseChars(string, i + 1, u, Append(buf, ch), count, most_current_bool)
         ELSE IF ch \in Digits
         THEN ParseChars(string, i + 1, u, Append(buf, ch), count, most_current_bool)
         ELSE IF ch = "t" \/ ch = "f"
         THEN ParseChars(string, i + 1, u, buf, count, ch = "t")
         ELSE IF ch = "," \/ ch = ";"
         THEN LET r == StoreField(u, buf, count, most_current_bool)
              IN  IF r.tag = "Some"
                  THEN ParseChars(string, i + 1, r.val, <<>>, count + 1,
                                  most_current_bool)
                  ELSE r
         ELSE ParseChars(string, i + 1, u, buf, count, most_current_bool)

parse_line(string) == ParseChars(string, 1, BlankUpdate, <<>>, 0, FALSE)


(***************************************************************************)
(* The dtf codec: a file is its header (symbol, count, min_ts, max_ts)     *)
(* and its body of records.                                                *)
(***************************************************************************)
RECURSIVE MaxTs(_)
MaxTs(ups) ==
    IF ups = <<>> THEN 0
    ELSE LET m == MaxTs(Tail(ups)) IN IF ups[1].ts > m THEN ups[1].ts ELSE m

RECURSIVE MinTs(_)
MinTs(ups) ==
    IF ups = <<>> THEN 0
    ELSE IF Len(ups) = 1 THEN ups[1].ts
    ELSE LET m == MinTs(Tail(ups)) IN IF ups[1].ts < m THEN ups[1].ts ELSE m

\* the updates of ups with ts at or above max_ts, in their order
RECURSIVE NotOlderThan(_, _)
NotOlderThan(ups, max_ts) ==
    IF ups = <<>> THEN <<>>
    ELSE IF ups[1].ts >= max_ts
         THEN <<ups[1]>> \o NotOlderThan(Tail(ups), max_ts)
         ELSE NotOlderThan(Tail(ups), max_ts)

\* the updates of ups with ts above max_ts, in their order
RECURSIVE NewerThan(_, _)
NewerThan(ups, max_ts) ==
    IF ups = <<>> THEN <<>>
    ELSE IF ups[1].ts > max_ts
         THEN <<ups[1]>> \o NewerThan(Tail(ups), max_ts)
         ELSE NewerThan(Tail(ups), max_ts)

\* the updates of ups whose ts is above that of every update before them
RECURSIVE RisingOnly(_, _)
RisingOnly(ups, max_ts) ==
    IF ups = <<>> THEN <<>>
    ELSE IF ups[1].ts > max_ts
         THEN <<ups[1]>> \o RisingOnly(Tail(ups), ups[1].ts)
         ELSE RisingOnly(Tail(ups), max_ts)

\* dtf::encode that applies append's filter while it writes
dtf_encode_rising(symbol, ups) ==
    LET kept == RisingOnly(ups, -1)
    IN  [symbol |-> symbol, count |-> Len(kept), min_ts |-> MinTs(kept),
         max_ts |-> MaxTs(kept), body |-> kept]

\* dtf::encode(fname, symbol, ups): a fresh file
dtf_encode(symbol, ups) ==
    [symbol |-> symbol, count |-> Len(ups), min_ts |-> MinTs(ups),
     max_ts |-> MaxTs(ups), body |-> ups]

\* dtf::append, step 1 and 2: read the header, filter the candidates
append_read(file, ups) ==
    [count |-> file.count, max_ts |-> file.max_ts,
     ups |-> NewerThan(ups, file.max_ts)]

\* dtf::append, step 4: seek to the end and write the filtered records
append_body(file, hdr) == [file EXCEPT !.body = @ \o hdr.ups]

\* dtf::append, step 5: rewrite the header from the one read in step 1
append_header(file, hdr) ==
    [file EXCEPT !.count = hdr.count + Len(hdr.ups),
                 !.max_ts = IF MaxTs(hdr.ups) > hdr.max_ts
                            THEN MaxTs(hdr.ups) ELSE hdr.max_ts]

\* dtf::append(fname, ups) run from start to end
dtf_append(file, ups) ==
    LET hdr == append_read(file, ups)
    IN  IF hdr.ups = <<>> THEN file
        ELSE append_header(append_body(file, hdr), hdr)

\* dtf::decode(fname): the record body
dtf_decode(file) == file.body

\* dtf::get_size(fname): the header's count; 0 when there is no such file
dtf_get_size(files, fname) ==
    IF fname \in DOMAIN files THEN files[fname].count ELSE 0

(***************************************************************************)
(* Store.                                                                  *)
(***************************************************************************)
\* Store { name, size: 0, in_memory: false, v: Vec::new() }, size given
NewStore(name, size) ==
    [name |-> name, in_memory |-> FALSE, size |-> size, v |-> <<>>]

\* format!("{}/{}.dtf", self.folder, self.name), within the folder
FileName(store) == store.name \o DTF_EXT

\* Store::add
Store_add(store, new_vec) ==
    [store EXCEPT !.v = Append(@, new_vec), !.size = @ + 1]

\* Store::to_string: the updates it renders (count -1: all; take(n as usize))
Store_to_string(store, count) ==
    IF count < 0 THEN store.v
    ELSE SubSeq(store.v, 1, IF count < Len(store.v) THEN count ELSE Len(store.v))

\* Store::flush without the existence check: the file is always encoded afresh
Store_flush_fresh(store, files) ==
    (FileName(store) :> dtf_encode(store.name, store.v)) @@ files

\* Store::flush: the folder after it
Store_flush(store, files) ==
    LET fname == FileName(store)
    IN  IF fname \in DOMAIN files
        THEN (fname :> dtf_append(files[fname], store.v)) @@ files
        ELSE (fname :> dtf_encode(store.name, store.v)) @@ files

\* Store::load that extends the buffer with the file's records
Store_load_extend(store, files) ==
    LET fname == FileName(store)
    IN  IF fname \in DOMAIN files
        THEN LET v == store.v \o dtf_decode(files[fname])
             IN  [store EXCEPT !.v = v, !.size = Len(v), !.in_memory = TRUE]
        ELSE store

\* Store::load
Store_load(store, files) ==
    LET fname == FileName(store)
    IN  IF fname \in DOMAIN files
        THEN LET v == dtf_decode(files[fname])
             IN  [store EXCEPT !.v = v, !.size = Len(v), !.in_memory = TRUE]
        ELSE store

\* Store::load_size_from_file: get_size of format!("{}/{}", folder, name)
Store_load_size_from_file(store, files) ==
    [store EXCEPT !.size = dtf_get_size(files, store.name)]

\* Store::clear
Store_clear(store, files) ==
    Store_load_size_from_file(
        [store EXCEPT !.v = <<>>, !.in_memory = FALSE], files)


(***************************************************************************)
(* State and gen_response.                                                 *)
(***************************************************************************)
\* the responses, as handle_client writes them
Text(t) == [tag |-> "Text", arg |-> t]
\* stream.write("ERR.") for a None of gen_response
ERR == Text("ERR.")
\* Store::to_string's "[...]\n" of the updates given
Json(objects) == [tag |-> "Json", arg |-> objects]
\* INFO's "[...]\n": per store, its name, in_memory and size
InfoOf(store) ==
    Json({[name |-> store[n].name, in_memory |-> store[n].in_memory,
           count |-> store[n].size] : n \in DOMAIN store})
Created(dbname) == [tag |-> "Created DB", arg |-> dbname]
Switched(dbname) == [tag |-> "SWITCHED TO DB", arg |-> dbname]
ErrUnknownDB(dbname) == [tag |-> "ERR unknown DB", arg |-> dbname]
ErrUnknownCommand(string) == [tag |-> "ERR unknown command", arg |-> string]

\* what a call of gen_response leaves: the response (None: ERR), the State, the
\* folder, and whether an Update was pushed
Done(r, st, files) ==
    [panic |-> FALSE, resp |-> r, state |-> st, fs |-> files, pushed |-> FALSE]
Pushed(r, st, files) ==
    [panic |-> FALSE, resp |-> r, state |-> st, fs |-> files, pushed |-> TRUE]
\* a panic!, an unwrap() or an expect() that fails: the thread ends
Panicked(st, files) ==
    [panic |-> TRUE, resp |-> Text("panic"), state |-> st, fs |-> files,
     pushed |-> FALSE]

\* store.values(): flush every store
RECURSIVE FlushEach(_, _, _)
FlushEach(store, names, files) ==
    IF names = {} THEN files
    ELSE LET n == CHOOSE x \in names : TRUE
         IN  FlushEach(store, names \ {n}, Store_flush(store[n], files))

\* state.store.get_mut(&state.current_store_name) is Some
HasCurrent(st) == st.current_store_name \in DOMAIN st.store

\* the arm "GETALL"
DoGetAll(st, files) ==
    IF ~HasCurrent(st) THEN Panicked(st, files)
    ELSE Done(Json(Store_to_string(st.store[st.current_store_name], -1)),
              st, files)

\* the arm "CLEAR"
DoClear(st, files) ==
    IF ~HasCurrent(st) THEN Panicked(st, files)
    ELSE Done(Text("1\n"),
              [st EXCEPT !.store[st.current_store_name] = Store_clear(@, files)],
              files)

\* the arm "CLEARALL"
DoClearAll(st, files) ==
    Done(Text("1\n"),
         [st EXCEPT !.store = [n \in DOMAIN st.store |->
                                  Store_clear(st.store[n], files)]],
         files)

\* the arm "FLUSH" that persists every Store of the map
DoFlush_every(st, files) ==
    IF ~HasCurrent(st) THEN Panicked(st, files)
    ELSE Done(Text("1\n"), st, FlushEach(st.store, DOMAIN st.store, files))

\* the arm "FLUSH"
DoFlush(st, files) ==
    IF ~HasCurrent(st) THEN Panicked(st, files)
    ELSE Done(Text("1\n"), st,
              Store_flush(st.store[st.current_store_name], files))

\* the arm "FLUSHALL"
DoFlushAll(st, files) ==
    Done(Text("1\n"), st, FlushEach(st.store, DOMAIN st.store, files))

\* the fallback arm with state.is_adding: a bulk record line
DoBulkLine(string, st, files) ==
    LET parsed == parse_line(string)
    IN  CASE parsed.tag = "Panic" -> Panicked(st, files)
          [] parsed.tag = "None" -> Done(ERR, st, files)
          [] parsed.tag = "Some" /\ ~HasCurrent(st) -> Panicked(st, files)
          [] parsed.tag = "Some" /\ HasCurrent(st) ->
               Pushed(Text(""),
                      [st EXCEPT !.store[st.current_store_name] =
                                     Store_add(@, parsed.val)],
                      files)

\* the fallback arm, "ADD "
DoAdd(string, st, files) ==
    LET parsed == parse_line(SliceFrom(string, 3))
    IN  CASE parsed.tag = "Panic" -> Panicked(st, files)
          [] parsed.tag = "None" -> Done(ERR, st, files)
          [] parsed.tag = "Some" /\ ~HasCurrent(st) -> Panicked(st, files)
          [] parsed.tag = "Some" /\ HasCurrent(st) ->
               Pushed(Text("1\n"),
                      [st EXCEPT !.store[st.current_store_name].v =
                                     Append(@, parsed.val)],
                      files)

\* the fallback arm, "CREATE ", that keeps an entry the map already holds
DoCreate_keeping(string, st, files) ==
    LET dbname == SliceFrom(string, 7)
    IN  Done(Created(dbname),
             [st EXCEPT !.store = @ @@ (dbname :> NewStore(dbname, 0))],
             files)

\* the fallback arm, "CREATE "
DoCreate(string, st, files) ==
    LET dbname == SliceFrom(string, 7)
    IN  Done(Created(dbname),
             [st EXCEPT !.store = (dbname :> NewStore(dbname, 0)) @@ @],
             files)

\* the fallback arm, "USE ", with the name assigned before the map is asked
DoUse_switching(string, st, files) ==
    LET dbname == SliceFrom(string, 4)
        sw == [st EXCEPT !.current_store_name = dbname]
    IN  IF dbname \in DOMAIN st.store
        THEN Done(Switched(dbname),
                  [sw EXCEPT !.store[dbname] = Store_load(@, files)], files)
        ELSE Done(ErrUnknownDB(dbname), sw, files)

\* the fallback arm, "USE "
DoUse(string, st, files) ==
    LET dbname == SliceFrom(string, 4)
    IN  IF dbname \in DOMAIN st.store
        THEN Done(Switched(dbname),
                  [st EXCEPT !.current_store_name = dbname,
                             !.store[dbname] = Store_load(@, files)],
                  files)
        ELSE Done(ErrUnknownDB(dbname), st, files)

\* the fallback arm, "GET "
DoGet(string, st, files) ==
    LET count == ParseI32(SliceFrom(string, 4))
    IN  IF count.tag = "Err" \/ ~HasCurrent(st) THEN Panicked(st, files)
        ELSE Done(Json(Store_to_string(st.store[st.current_store_name],
                                       count.val)),
                  st, files)

\* gen_response(string, state), with the folder it reads and writes
gen_response(string, st, files) ==
    CASE string = EMPTY -> Done(Text(""), st, files)
      [] string = PING -> Done(Text("PONG.\n"), st, files)
      [] string = HELP -> Done(Text("HELP_STR"), st, files)
      [] string = INFO -> Done(InfoOf(st.store), st, files)
      [] string = BULKADD ->
           Done(Text(""), [st EXCEPT !.is_adding = TRUE], files)
      [] string = DDAKLUB ->
           Done(Text("1\n"), [st EXCEPT !.is_adding = FALSE], files)
      [] string = GETALL -> DoGetAll(st, files)
      [] string = CLEAR -> DoClear(st, files)
      [] string = CLEARALL -> DoClearAll(st, files)
      [] string = FLUSH -> DoFlush(st, files)
      [] string = FLUSHALL -> DoFlushAll(st, files)
      [] OTHER ->
           IF st.is_adding THEN DoBulkLine(string, st, files)
           ELSE IF starts_with(string, ADD_) THEN DoAdd(string, st, files)
           ELSE IF starts_with(string, CREATE_) THEN DoCreate(string, st, files)
           ELSE IF starts_with(string, USE_) THEN DoUse(string, st, files)
           ELSE IF starts_with(string, GET_) THEN DoGet(string, st, files)
           ELSE Done(ErrUnknownCommand(string), st, files)

(***************************************************************************)
(* handle_client: the State a connection starts with.                      *)
(***************************************************************************)
\* Path::file_stem of a name ending in ".dtf"
FileStem(fname) == SubSeq(fname, 1, Len(fname) - Len(DTF_EXT))

\* init_dbs: a Store per *.dtf file of the folder, its size from the header
init_dbs(files, st) ==
    LET dtfs == {f \in DOMAIN files : ends_with(f, DTF_EXT)}
        byName == [n \in {FileStem(f) : f \in dtfs} |->
                      NewStore(n, dtf_get_size(files, n \o DTF_EXT))]
    IN  [st EXCEPT !.store = byName @@ @]

\* a State built by init_dbs alone, the Store `default` not inserted
InitialState_scanned(files) ==
    init_dbs(files,
             [is_adding |-> FALSE,
              store |-> <<>>,
              current_store_name |-> DEFAULT])

\* the State of handle_client before its loop
InitialState(files) ==
    init_dbs(files,
             [is_adding |-> FALSE,
              store |-> (DEFAULT :> NewStore(DEFAULT, 0)),
              current_store_name |-> DEFAULT])

\* the State of a thread that has ended
NoState == [is_adding |-> FALSE, store |-> <<>>, current_store_name |-> <<>>]


(***************************************************************************)
(* The lines a client sends.                                               *)
(***************************************************************************)
\* "1.0,1,t,f,1,1;": ts 10
REC_10 == <<"1", ".", "0", ",", "1", ",", "t", ",", "f", ",", "1", ",", "1", ";">>
\* "2.0,1,f,t,1,1;": ts 20
REC_20 == <<"2", ".", "0", ",", "1", ",", "f", ",", "t", ",", "1", ",", "1", ";">>
\* "3.0,1,t,t,1,1;": ts 30
REC_30 == <<"3", ".", "0", ",", "1", ",", "t", ",", "t", ",", "1", ",", "1", ";">>
\* "2.0": cut after the first field, no separator and no `;`
REC_CUT == <<"2", ".", "0">>
\* "3.0,1;": two fields
REC_SHORT == <<"3", ".", "0", ",", "1", ";">>
\* "3.0,1,t,t,1,1": no terminating `;`
REC_OPEN == <<"3", ".", "0", ",", "1", ",", "t", ",", "t", ",", "1", ",", "1">>
\* "1.0,1,,,f,t,1,1;": the line of should_parse_string_not_okay, shortened
REC_EXTRA == <<"1", ".", "0", ",", "1", ",", ",", ",", "f", ",", "t", ",", "1",
               ",", "1", ";">>
\* "1.0,1,t,f,1,1,;": a seventh field
REC_SEVEN == <<"1", ".", "0", ",", "1", ",", "t", ",", "f", ",", "1", ",", "1",
               ",", ";">>

\* the record lines of Spec: one well formed, three that are not
RecordLines == {REC_10, REC_CUT, REC_EXTRA, REC_SEVEN}

\* the record lines of SpecStore: three timestamps
TimedLines == {REC_10, REC_20, REC_30}

\* the names of CREATE and USE
DEFAULT_DTF == DEFAULT \o DTF_EXT
OTHER_DB == <<"x">>
CreateNames == {DEFAULT, DEFAULT_DTF}
UseNames == {DEFAULT, DEFAULT_DTF, OTHER_DB}

\* the arguments of GET
GetArgs == {<<"1">>, <<"-", "1">>, <<"x">>}

\* a line that is no command
NOPE == <<"N", "O", "P", "E">>

(***************************************************************************)
(* The actions: one request of the client, handled by handle_client's      *)
(* loop, per command.                                                      *)
(***************************************************************************)
RECURSIVE SumOver(_, _)
SumOver(f, keys) ==
    IF keys = {} THEN 0
    ELSE LET k == CHOOSE x \in keys : TRUE IN f[k] + SumOver(f, keys \ {k})

\* the updates the Stores of a State buffer
Buffered(st) == SumOver([n \in DOMAIN st.store |-> Len(st.store[n].v)],
                        DOMAIN st.store)

\* the records the files of a folder hold
Recorded(files) == SumOver([f \in DOMAIN files |-> Len(files[f].body)],
                           DOMAIN files)

\* the loop body of a running thread: gen_response, then the write to the
\* stream; a panic ends the thread. The client sends a line that pushes an Update while fewer than
\* maxBuf are buffered, and one that writes files while they stay within maxFile.
Handle(string, maxBuf, maxFile) ==
    /\ \E r \in {gen_response(string, state, fs)} :
           /\ r.pushed => Buffered(state) < maxBuf
           /\ r.fs # fs => Recorded(r.fs) <= maxFile
           /\ fs' = r.fs
           /\ alive' = ~r.panic
           /\ state' = IF r.panic THEN NoState ELSE r.state
    /\ UNCHANGED <<fl, pl>>

Request(string) == Handle(string, MaxBuf, MaxFile)

Empty == alive /\ Request(EMPTY)
Ping == alive /\ Request(PING)
Help == alive /\ Request(HELP)
Info == alive /\ Request(INFO)
BulkAdd == alive /\ Request(BULKADD)
Ddaklub == alive /\ Request(DDAKLUB)
GetAll == alive /\ Request(GETALL)
Clear == alive /\ Request(CLEAR)
ClearAll == alive /\ Request(CLEARALL)
Flush == alive /\ Request(FLUSH)
FlushAll == alive /\ Request(FLUSHALL)
RecordLine == \E l \in RecordLines : alive /\ Request(l)
Add == \E l \in RecordLines : alive /\ Request(ADD_ \o l)
Create == \E n \in CreateNames : alive /\ Request(CREATE_ \o n)
Use == \E n \in UseNames : alive /\ Request(USE_ \o n)
Get == \E a \in GetArgs : alive /\ Request(GET_ \o a)
Unknown == alive /\ Request(NOPE)

\* stream.read returns 0: the loop breaks and the State is dropped
Disconnect ==
    /\ alive
    /\ alive' = FALSE
    /\ state' = NoState
    /\ UNCHANGED <<fs, fl, pl>>

\* run_server accepts a connection: handle_client builds its State
Connect ==
    /\ ~alive
    /\ alive' = TRUE
    /\ state' = InitialState(fs)
    /\ UNCHANGED <<fs, fl, pl>>

\* an empty folder
NoFiles == <<>>

\* no thread is flushing
NoFlushers == <<>>

\* parse_line is not followed call by call
NoParse == <<>>

Init ==
    /\ fs = NoFiles
    /\ alive = TRUE
    /\ state = InitialState(NoFiles)
    /\ fl = NoFlushers
    /\ pl = NoParse

Next ==
    \/ Empty \/ Ping \/ Help \/ Info \/ BulkAdd \/ Ddaklub \/ GetAll
    \/ Clear \/ ClearAll \/ Flush \/ FlushAll \/ RecordLine \/ Add
    \/ Create \/ Use \/ Get \/ Unknown \/ Disconnect \/ Connect

\* every command, two Stores, one timestamp
Spec == Init /\ [][Next]_vars

(***************************************************************************)
(* SpecStore: the default Store with three timestamps, through the         *)
(* commands that add, persist, drop and reload.                            *)
(***************************************************************************)
StoreRequest(string) == Handle(string, MaxStoreBuf, MaxStoreFile)

StoreBulkAdd == alive /\ StoreRequest(BULKADD)
StoreDdaklub == alive /\ StoreRequest(DDAKLUB)
StoreRecordLine == \E l \in TimedLines : alive /\ StoreRequest(l)
StoreFlush == alive /\ StoreRequest(FLUSH)
StoreFlushAll == alive /\ StoreRequest(FLUSHALL)
StoreClear == alive /\ StoreRequest(CLEAR)
StoreUse == alive /\ StoreRequest(USE_ \o DEFAULT)

NextStore ==
    \/ StoreBulkAdd \/ StoreDdaklub \/ StoreRecordLine \/ StoreFlush
    \/ StoreFlushAll \/ StoreClear \/ StoreUse \/ Disconnect \/ Connect

SpecStore == Init /\ [][NextStore]_vars


(***************************************************************************)
(* SpecReingest: the default Store filled by ADD and by bulk record lines   *)
(* of three timestamps, persisted, dropped and reloaded.                   *)
(***************************************************************************)
ReRequest(string) == Handle(string, MaxReBuf, MaxReFile)

ReBulkAdd == alive /\ ReRequest(BULKADD)
ReDdaklub == alive /\ ReRequest(DDAKLUB)
ReRecordLine == \E l \in TimedLines : alive /\ ReRequest(l)
ReAdd == \E l \in TimedLines : alive /\ ReRequest(ADD_ \o l)
ReFlush == alive /\ ReRequest(FLUSH)
ReClear == alive /\ ReRequest(CLEAR)
ReUse == alive /\ ReRequest(USE_ \o DEFAULT)

NextReingest ==
    \/ ReBulkAdd \/ ReDdaklub \/ ReRecordLine \/ ReAdd \/ ReFlush
    \/ ReClear \/ ReUse

SpecReingest == Init /\ [][NextReingest]_vars


(***************************************************************************)
(* SpecParse: parse_line called on record lines, one call after another.    *)
(* pl holds the line of the current call and what it returned, the line    *)
(* and the result of the call before it, and the number of calls.          *)
(***************************************************************************)
\* the parts of a well-formed record line: the ts field is a whole part, one
\* decimal point and a fraction
TsWhole == {<<"1">>, <<"0">>, <<"1", "2">>}
TsFraction == {<<"0">>, <<"0", "5">>, <<"6", "5", "8">>}
SeqFields == {<<"1">>, <<"1", "3", "9">>}
Flags == {"t", "f"}
\* the fields follow one another with or without a space, as in "1, t"
Gaps == {<<>>, <<" ">>}
PRICE == <<"0", ".", "5">>
SIZE == <<"7", ".", "6">>

\* "<whole>.<fraction>, <seq>, <is_trade>, <is_bid>, <price>, <size>;"
RecordOf(whole, fraction, seq, is_trade, is_bid, gap) ==
    whole \o <<".">> \o fraction \o <<",">> \o gap \o seq \o <<",">> \o gap
      \o <<is_trade>> \o <<",">> \o gap \o <<is_bid>> \o <<",">> \o gap
      \o PRICE \o <<",">> \o gap \o SIZE \o <<";">>

WellFormed ==
    {RecordOf(w, f, s, t, b, g) :
        w \in TsWhole, f \in TsFraction, s \in SeqFields, t \in Flags,
        b \in Flags, g \in Gaps}

\* "10,1,t,f,1,1;": no decimal point in the ts field
REC_NODOT == <<"1", "0", ",", "1", ",", "t", ",", "f", ",", "1", ",", "1", ";">>
\* "1.0.0,1,t,f,1,1;": two decimal points in the ts field
REC_TWODOTS == <<"1", ".", "0", ".", "0", ",", "1", ",", "t", ",", "f", ",", "1",
                 ",", "1", ";">>

\* the lines parse_line is called with
ParseLines ==
    WellFormed \cup {REC_NODOT, REC_TWODOTS, REC_CUT, REC_SHORT, REC_OPEN,
                     REC_EXTRA, REC_SEVEN}

NotCalled == [tag |-> "NotCalled"]

InitParse ==
    /\ fs = NoFiles
    /\ alive = FALSE
    /\ state = NoState
    /\ fl = NoFlushers
    /\ \E l \in ParseLines :
          pl = [string |-> l, ret |-> NotCalled,
                earlier |-> [string |-> EMPTY, ret |-> NotCalled], calls |-> 1]

\* parse_line(string) runs and returns
ParseLine ==
    /\ pl.ret = NotCalled
    /\ pl' = [pl EXCEPT !.ret = parse_line(pl.string)]
    /\ UNCHANGED <<fs, state, alive, fl>>

\* the next call, with a line of its own
ParseAgain ==
    /\ pl.ret # NotCalled
    /\ pl.calls < MaxCalls
    /\ \E l \in ParseLines :
          pl' = [string |-> l, ret |-> NotCalled,
                 earlier |-> [string |-> pl.string, ret |-> pl.ret],
                 calls |-> pl.calls + 1]
    /\ UNCHANGED <<fs, state, alive, fl>>

NextParse == ParseLine \/ ParseAgain

SpecParse == InitParse /\ [][NextParse]_vars


(***************************************************************************)
(* SpecConc: two Sessions, one thread each (run_server spawns a thread per *)
(* connection), FLUSH a Store of the same name.  Store::flush is followed  *)
(* step by step: the existence check, then dtf::encode, or dtf::append's   *)
(* header read, body write and header rewrite.  No lock orders the steps   *)
(* of the two threads.                                                     *)
(*                                                                         *)
(* fl.thr[t] is thread t's position (pc), the Store it flushes and the     *)
(* header dtf::append read.  fl.before, fl.first and fl.serial record the  *)
(* run: the file's max_ts before either flush (-1: no file), the thread    *)
(* that stepped first, and whether no flush has stepped inside the other.  *)
(***************************************************************************)
Threads == {1, 2}

Other(t) == IF t = 1 THEN 2 ELSE 1

\* the Updates of the well-formed record lines with ts 10, 20, 30
Tick10 == parse_line(REC_10).val
Tick20 == parse_line(REC_20).val
Tick30 == parse_line(REC_30).val
\* "4.0,1,t,t,1,1;": ts 40
REC_40 == <<"4", ".", "0", ",", "1", ",", "t", ",", "t", ",", "1", ",", "1", ";">>
Tick40 == parse_line(REC_40).val

\* the sequences over S of length 1..n
SeqsUpTo(S, n) == UNION {[1..k -> S] : k \in 1..n}

\* the two Sessions' buffers: disjoint timestamp ranges
LowTicks == {Tick10, Tick20}
HighTicks == {Tick30, Tick40}

\* a Store after BULKADD of the lines of v
BulkAdded(name, v) ==
    [name |-> name, in_memory |-> FALSE, size |-> Len(v), v |-> v]

\* the folder before the flushes: no file, or one an earlier FLUSH encoded
FoldersBefore ==
    {NoFiles} \cup
    {(DEFAULT_DTF :> dtf_encode(DEFAULT, body)) :
        body \in {<<>>, <<Tick10>>, <<Tick30>>}}

NoHeader == [count |-> 0, max_ts |-> 0, ups |-> <<>>]

InitConc ==
    /\ fs \in FoldersBefore
    /\ alive = FALSE
    /\ state = NoState
    /\ pl = NoParse
    /\ \E v1 \in SeqsUpTo(LowTicks, MaxConcBuf), v2 \in SeqsUpTo(HighTicks, MaxConcBuf) :
          fl = [thr |-> [t \in Threads |->
                           [pc |-> "flush",
                            store |-> BulkAdded(DEFAULT, IF t = 1 THEN v1 ELSE v2),
                            hdr |-> NoHeader]],
                before |-> IF DEFAULT_DTF \in DOMAIN fs
                           THEN fs[DEFAULT_DTF].max_ts ELSE -1,
                first |-> 0,
                serial |-> TRUE]

\* thread t steps to pc, having read hdr: the run is recorded
Stepped(t, pc, hdr) ==
    [fl EXCEPT !.thr[t].pc = pc,
               !.thr[t].hdr = hdr,
               !.first = IF @ = 0 THEN t ELSE @,
               !.serial = @ /\ fl.thr[Other(t)].pc \in {"flush", "done"}]

\* Store::flush whose existence check never finds the file
FlushExists_unseen(t) ==
    /\ fl.thr[t].pc = "flush"
    /\ fl' = Stepped(t, "encode", fl.thr[t].hdr)
    /\ UNCHANGED <<fs, state, alive, pl>>

\* Store::flush: Path::new(&fname).exists()
FlushExists(t) ==
    /\ fl.thr[t].pc = "flush"
    /\ fl' = Stepped(t, IF FileName(fl.thr[t].store) \in DOMAIN fs
                        THEN "append" ELSE "encode", fl.thr[t].hdr)
    /\ UNCHANGED <<fs, state, alive, pl>>

\* Store::flush: dtf::encode(&fname, &self.name, &self.v)
FlushEncode(t) ==
    /\ fl.thr[t].pc = "encode"
    /\ fs' = (FileName(fl.thr[t].store) :>
                 dtf_encode(fl.thr[t].store.name, fl.thr[t].store.v)) @@ fs
    /\ fl' = Stepped(t, "done", fl.thr[t].hdr)
    /\ UNCHANGED <<state, alive, pl>>

\* dtf::append: the header is read and the candidates are filtered; with
\* nothing left the file is closed unchanged
AppendRead(t) ==
    /\ fl.thr[t].pc = "append"
    /\ LET hdr == append_read(fs[FileName(fl.thr[t].store)], fl.thr[t].store.v)
       IN  fl' = Stepped(t, IF hdr.ups = <<>> THEN "done" ELSE "body", hdr)
    /\ UNCHANGED <<fs, state, alive, pl>>

\* dtf::append: the records are written at the end of the file
AppendBody(t) ==
    /\ fl.thr[t].pc = "body"
    /\ fs' = [fs EXCEPT ![FileName(fl.thr[t].store)] =
                            append_body(@, fl.thr[t].hdr)]
    /\ fl' = Stepped(t, "header", fl.thr[t].hdr)
    /\ UNCHANGED <<state, alive, pl>>

\* dtf::append: the header is rewritten
AppendHeader(t) ==
    /\ fl.thr[t].pc = "header"
    /\ fs' = [fs EXCEPT ![FileName(fl.thr[t].store)] =
                            append_header(@, fl.thr[t].hdr)]
    /\ fl' = Stepped(t, "done", fl.thr[t].hdr)
    /\ UNCHANGED <<state, alive, pl>>

NextConc ==
    \E t \in Threads :
        \/ FlushExists(t) \/ FlushEncode(t) \/ AppendRead(t)
        \/ AppendBody(t) \/ AppendHeader(t)

SpecConc == InitConc /\ [][NextConc]_vars


(***************************************************************************)
(* The claims.  A claim about the effect of a command is stated of         *)
(* gen_response's outcome in every reachable state.                        *)
(***************************************************************************)
\* what handling the line in the current state leaves
Outcome(string) == gen_response(string, state, fs)

\* the file a Store of that name is persisted in: <name>.dtf
FileOf(name) == name \o DTF_EXT

\* the greatest of a non-empty set of numbers
Greatest(S) == CHOOSE m \in S : \A x \in S : m >= x

\* C1: F2 is F with exactly the updates of S newer than F's max_ts appended
Appended(F, S, F2) ==
    LET IsNewer(u) == u.ts > F.max_ts
        kept == SelectSeq(S, IsNewer)
    IN  /\ F2.body = F.body \o kept
        /\ F2.count = F.count + Cardinality({i \in 1..Len(S) : S[i].ts > F.max_ts})
        /\ F2.max_ts = Greatest({F.max_ts} \cup {kept[i].ts : i \in 1..Len(kept)})
        /\ F2.min_ts = F.min_ts
        /\ F2.symbol = F.symbol

\* C1: when FLUSH (the current Store) or FLUSHALL (every Store) persists a
\* Store whose file exists, exactly the buffer's updates with ts above the
\* file's max_ts are appended, in buffer order; the records of the file stay;
\* count grows by their number, max_ts becomes the greatest ts, min_ts stays.
C1_AppendOnFlush ==
    alive =>
      /\ LET n == state.current_store_name
         IN  FileOf(n) \in DOMAIN fs =>
                Appended(fs[FileOf(n)], state.store[n].v,
                         Outcome(FLUSH).fs[FileOf(n)])
      /\ \A n \in DOMAIN state.store :
            FileOf(n) \in DOMAIN fs =>
                Appended(fs[FileOf(n)], state.store[n].v,
                         Outcome(FLUSHALL).fs[FileOf(n)])

\* C1: a FLUSH has appended 30 and 20, in the buffer's order, to a file that
\* held 10, and dropped the buffer's 10
C1_Witness ==
    /\ alive
    /\ FileOf(DEFAULT) \in DOMAIN fs
    /\ fs[FileOf(DEFAULT)].body = <<Tick10, Tick30, Tick20>>
    /\ fs[FileOf(DEFAULT)].count = 3
    /\ fs[FileOf(DEFAULT)].max_ts = 30
    /\ state.store[DEFAULT].v = <<Tick30, Tick10, Tick20>>

\* the record count a fresh load of the Store's file yields, 0 without a file
FreshLoadCount(files, name) ==
    IF FileOf(name) \in DOMAIN files THEN Len(dtf_decode(files[FileOf(name)]))
    ELSE 0

\* C2: with no update added since the last FLUSH (right after a FLUSH, and
\* after a CLEAR or a USE that follows it), the current Store's size is the
\* record count a fresh load of its file yields.
C2_SizeReflectsTruth ==
    alive =>
      LET n == state.current_store_name
          flushed == Outcome(FLUSH)
          cleared == gen_response(CLEAR, flushed.state, flushed.fs)
          loaded  == gen_response(USE_ \o n, [flushed.state EXCEPT !.is_adding = FALSE],
                                  flushed.fs)
      IN  /\ flushed.state.store[n].size = FreshLoadCount(flushed.fs, n)
          /\ cleared.state.store[n].size = FreshLoadCount(cleared.fs, n)
          /\ loaded.state.store[n].size = FreshLoadCount(loaded.fs, n)

\* C3: r is the outcome of adding u: the current Store's buffer has u appended,
\* its size is one more, it is in memory; no other Store changes
AddedTo(r, u) ==
    /\ ~r.panic
    /\ r.state.store =
          [state.store EXCEPT ![state.current_store_name] =
              [@ EXCEPT !.v = Append(@, u), !.size = @ + 1, !.in_memory = TRUE]]

\* C3: a successful `ADD <record>` in NORMAL state, and a parsed record line in
\* BULK_ADD state, append the parsed Update to the current Store's buffer,
\* add 1 to its size and set its in_memory; no other Store changes.
C3_AddEffect ==
    alive =>
      \A l \in TimedLines :
         /\ ~state.is_adding => AddedTo(Outcome(ADD_ \o l), parse_line(l).val)
         /\ state.is_adding => AddedTo(Outcome(l), parse_line(l).val)

\* C4: a Store whose in_memory is false has an empty buffer.
C4_NotInMemoryIsEmpty ==
    alive =>
      \A n \in DOMAIN state.store :
         ~state.store[n].in_memory => state.store[n].v = <<>>

\* C5: a Store whose in_memory is true has size equal to its buffer's length.
C5_InMemorySizeIsLength ==
    alive =>
      \A n \in DOMAIN state.store :
         state.store[n].in_memory => state.store[n].size = Len(state.store[n].v)

\* the commands C6 names
BulkCommands == {FLUSH, CLEAR, CLEARALL, FLUSHALL, GETALL, INFO, PING}

\* C6: BULKADD moves NORMAL to BULK_ADD; in BULK_ADD a command line is a
\* record line: it writes no file, clears no buffer, answers as a record line
\* does (empty, or the error line) and leaves the Session in BULK_ADD; DDAKLUB
\* returns to NORMAL with "1\n".
C6_BulkMode ==
    alive =>
      /\ ~state.is_adding => Outcome(BULKADD).state.is_adding
      /\ state.is_adding =>
           /\ ~Outcome(DDAKLUB).state.is_adding
           /\ Outcome(DDAKLUB).resp = Text("1\n")
           /\ \A l \in BulkCommands :
                 LET r == Outcome(l)
                 IN  /\ r.state.is_adding
                     /\ r.fs = fs
                     /\ r.resp \in {Text(""), ERR}
                     /\ \A n \in DOMAIN state.store :
                           Len(r.state.store[n].v) >= Len(state.store[n].v)

\* record lines that do not deliver six well-formed fields
Malformed == {REC_CUT, REC_SHORT, REC_OPEN, REC_EXTRA}

\* C7: a record line that does not deliver six well-formed fields makes ADD
\* and a bulk record line answer the error and leave the State as it was.
C7_NoPartialUpdate ==
    alive =>
      \A l \in Malformed :
         LET r == IF state.is_adding THEN Outcome(l) ELSE Outcome(ADD_ \o l)
         IN  /\ ~r.panic
             /\ r.resp = ERR
             /\ r.state = state

\* the count in the header of the Store's file, 0 without a file
HeaderCount(files, name) ==
    IF FileOf(name) \in DOMAIN files THEN files[FileOf(name)].count ELSE 0

\* C8: s is a cleared Store
Cleared(s, files) ==
    /\ s.v = <<>>
    /\ ~s.in_memory
    /\ s.size = HeaderCount(files, s.name)

\* C8: after CLEAR the current Store, and after CLEARALL every Store, has an
\* empty buffer, in_memory false and size the count in the header of its
\* <name>.dtf, or 0 without that file.
C8_ClearEffect ==
    alive =>
      /\ Cleared(Outcome(CLEAR).state.store[state.current_store_name], fs)
      /\ \A n \in DOMAIN state.store :
            Cleared(Outcome(CLEARALL).state.store[n], fs)

\* C9: in NORMAL state, `USE <name>` of a name in the map makes it the current
\* store; with its file, the buffer becomes the file's records in file order,
\* size their number and in_memory true; without, the Store is unchanged.
C9_UseEffect ==
    (alive /\ ~state.is_adding) =>
      \A n \in DOMAIN state.store :
         LET r == Outcome(USE_ \o n)
             s == r.state.store[n]
         IN  /\ ~r.panic
             /\ r.state.current_store_name = n
             /\ IF FileOf(n) \in DOMAIN fs
                THEN /\ s.v = fs[FileOf(n)].body
                     /\ s.size = Len(fs[FileOf(n)].body)
                     /\ s.in_memory
                ELSE s = state.store[n]

\* C9: USE has switched to the Store default.dtf and loaded its two records
C9_Witness ==
    /\ alive
    /\ state.current_store_name = DEFAULT_DTF
    /\ DEFAULT_DTF \in DOMAIN state.store
    /\ FileOf(DEFAULT_DTF) \in DOMAIN fs
    /\ state.store[DEFAULT_DTF].in_memory
    /\ state.store[DEFAULT_DTF].v = <<Tick10, BlankUpdate>>
    /\ fs[FileOf(DEFAULT_DTF)].body = <<Tick10, BlankUpdate>>

\* both flushes have returned
BothDone == \A t \in Threads : fl.thr[t].pc = "done"

\* the final file holds every update of both buffers newer than the file was
\* before either flush, and its header counts the records of its body
Converged ==
    /\ FileOf(DEFAULT) \in DOMAIN fs
    /\ LET F == fs[FileOf(DEFAULT)]
       IN  /\ \A t \in Threads :
                 \A i \in 1..Len(fl.thr[t].store.v) :
                    fl.thr[t].store.v[i].ts > fl.before =>
                       \E j \in 1..Len(F.body) : F.body[j] = fl.thr[t].store.v[i]
           /\ F.count = Len(F.body)

\* C10, as claimed: for every interleaving of the two flushes' steps the final
\* file holds every update of both buffers newer than the file's max_ts before
\* either flush, and the header count is the number of records in the body.
C10_ConvergeAlways == BothDone => Converged

\* C10, amended: the same, when the two flushes do not interleave and the
\* Session that flushes second holds the greater timestamps.
C10_ConvergeSerialAscending ==
    (BothDone /\ fl.serial /\ fl.first = 1) => Converged

\* C10: the flushes ran one after the other, the lower timestamps first, onto
\* a file that held 10: the file holds 10, 20, 30, 40
C10_Witness ==
    /\ BothDone /\ fl.serial /\ fl.first = 1
    /\ fl.before = 10
    /\ fs[FileOf(DEFAULT)].body = <<Tick10, Tick20, Tick30, Tick40>>
    /\ fl.thr[1].store.v = <<Tick10, Tick20>>

\* the answers that report an error: "ERR." and the two "ERR ..." lines
IsErr(resp) ==
    \/ resp = ERR
    \/ resp.tag \in {"ERR unknown DB", "ERR unknown command"}

\* C11: the erroneous command lines of NORMAL state: an unknown command, ADD of
\* a record with empty fields and of one with a seventh field, USE of a name
\* not in the map, GET with a non-integer argument
ErrCommands ==
    {NOPE, ADD_ \o REC_EXTRA, ADD_ \o REC_SEVEN, USE_ \o OTHER_DB,
     GET_ \o <<"x">>}

\* C11: the erroneous record lines of BULK_ADD state
ErrRecords == {REC_EXTRA, REC_SEVEN}

\* C11: an erroneous line never ends the Session: it is answered with an ERR
\* line, the thread stays in its loop, and Stores, current store name and mode
\* are as before the line.
C11_ErrorsKeepSession ==
    alive =>
      \A l \in (IF state.is_adding THEN ErrRecords ELSE ErrCommands) :
         LET r == Outcome(l)
         IN  /\ ~r.panic
             /\ IsErr(r.resp)
             /\ r.state = state

\* the least of a non-empty set of numbers
Least(S) == CHOOSE m \in S : \A x \in S : m =< x

\* the timestamps of a sequence of updates
TsOf(ups) == {ups[i].ts : i \in 1..Len(ups)}

\* C12: in NORMAL state, for a current Store without a file and with buffer S,
\* FLUSH leaves a file that holds exactly S (body S, count |S|, min_ts and
\* max_ts the least and greatest ts of S), and CLEAR followed by USE of the
\* Store's name leaves the buffer equal to S, same updates in the same order.
C12_FlushLoadRoundTrip ==
    (alive /\ ~state.is_adding
           /\ FileOf(state.current_store_name) \notin DOMAIN fs) =>
      LET n == state.current_store_name
          S == state.store[n].v
          flushed == Outcome(FLUSH)
          cleared == gen_response(CLEAR, flushed.state, flushed.fs)
          used    == gen_response(USE_ \o n, cleared.state, cleared.fs)
      IN  /\ FileOf(n) \in DOMAIN flushed.fs
          /\ flushed.fs[FileOf(n)].body = S
          /\ flushed.fs[FileOf(n)].count = Len(S)
          /\ S # <<>> => /\ flushed.fs[FileOf(n)].min_ts = Least(TsOf(S))
                         /\ flushed.fs[FileOf(n)].max_ts = Greatest(TsOf(S))
          /\ used.fs = flushed.fs
          /\ used.state.store[n].v = S

\* C12: a buffer of 30, 10 was flushed to a new file, cleared, and loaded
\* again by USE: file and buffer hold 30, 10 in that order
C12_Witness ==
    /\ alive /\ ~state.is_adding
    /\ FileOf(DEFAULT) \in DOMAIN fs
    /\ fs[FileOf(DEFAULT)].body = <<Tick30, Tick10>>
    /\ fs[FileOf(DEFAULT)].count = 2
    /\ fs[FileOf(DEFAULT)].min_ts = 10
    /\ fs[FileOf(DEFAULT)].max_ts = 30
    /\ state.store[DEFAULT].in_memory
    /\ state.store[DEFAULT].size = 2
    /\ state.store[DEFAULT].v = <<Tick30, Tick10>>

\* the record lines whose ts is not greater than max_ts
StaleLines(max_ts) == {l \in TimedLines : parse_line(l).val.ts =< max_ts}

\* the Store of that name has a file, and no update of its buffer is newer
\* than the file's max_ts
Settled(st, files, name) ==
    /\ FileOf(name) \in DOMAIN files
    /\ \A i \in 1..Len(st.store[name].v) :
          st.store[name].v[i].ts =< files[FileOf(name)].max_ts

\* C13: once the current Store is flushed, a second FLUSH with no add in
\* between, and a FLUSH after adding again, in any order, only updates whose
\* ts is not greater than the file's max_ts, leave the file's body and its
\* header (count, min_ts, max_ts) unchanged.  Stated step by step, for any
\* number of such adds: a FLUSH leaves the Store settled and a second FLUSH
\* changes no file; adding such an update, by ADD or as a bulk record line,
\* to a settled Store leaves it settled; a FLUSH of a settled Store changes
\* no file.
C13_IdempotentReingest ==
    alive =>
      LET n == state.current_store_name
          once == Outcome(FLUSH)
      IN  /\ Settled(once.state, once.fs, n)
          /\ gen_response(FLUSH, once.state, once.fs).fs = once.fs
          /\ Settled(state, fs, n) =>
                /\ Outcome(FLUSH).fs = fs
                /\ \A l \in StaleLines(fs[FileOf(n)].max_ts) :
                      LET r == IF state.is_adding THEN Outcome(l)
                               ELSE Outcome(ADD_ \o l)
                      IN  /\ r.fs = fs
                          /\ r.state.store[n].v =
                                Append(state.store[n].v, parse_line(l).val)
                          /\ Settled(r.state, r.fs, n)

\* C13: the file holds 30 from a first FLUSH; 10 was added after it, and a
\* FLUSH of the buffer 30, 10 leaves the file as it is
C13_Witness ==
    /\ alive
    /\ FileOf(DEFAULT) \in DOMAIN fs
    /\ fs[FileOf(DEFAULT)].body = <<Tick30>>
    /\ fs[FileOf(DEFAULT)].count = 1
    /\ fs[FileOf(DEFAULT)].max_ts = 30
    /\ state.store[DEFAULT].v = <<Tick30, Tick10>>
    /\ Outcome(FLUSH).fs = fs

\* C14: the lines that cannot be parsed as a record: fewer than six fields,
\* no terminating `;`, empty fields, a seventh field
Unparseable == Malformed \cup {REC_SEVEN}

\* C14: in BULK_ADD state a line that cannot be parsed as a record is answered
\* with the error line, the Session stays in BULK_ADD, and no Store's buffer
\* or size changes.
C14_BulkParseError ==
    (alive /\ state.is_adding) =>
      \A l \in Unparseable :
         LET r == Outcome(l)
         IN  /\ ~r.panic
             /\ r.resp = ERR
             /\ r.state.is_adding
             /\ \A n \in DOMAIN state.store :
                   /\ r.state.store[n].v = state.store[n].v
                   /\ r.state.store[n].size = state.store[n].size

\* C15: in NORMAL state, `USE <name>` of a name not in the map answers
\* `ERR unknown DB`, and leaves the current store name, every Store, the mode
\* and the files as they were, so that a later command (GETALL) addresses the
\* same current Store with the same result.
C15_UseUnknown ==
    (alive /\ ~state.is_adding) =>
      \A n \in UseNames \ DOMAIN state.store :
         LET r == Outcome(USE_ \o n)
         IN  /\ ~r.panic
             /\ r.resp = ErrUnknownDB(n)
             /\ r.state.current_store_name = state.current_store_name
             /\ r.state.store = state.store
             /\ r.state.is_adding = state.is_adding
             /\ r.fs = fs
             /\ gen_response(GETALL, r.state, r.fs) = Outcome(GETALL)

\* C15: the current Store is default.dtf and buffers an update; `USE x` of the
\* unknown x is answered with the error, and GETALL still renders that buffer
C15_Witness ==
    /\ alive /\ ~state.is_adding
    /\ state.current_store_name = DEFAULT_DTF
    /\ DEFAULT_DTF \in DOMAIN state.store
    /\ OTHER_DB \notin DOMAIN state.store
    /\ state.store[DEFAULT_DTF].v = <<Tick10>>
    /\ Outcome(USE_ \o OTHER_DB).resp = ErrUnknownDB(OTHER_DB)
    /\ gen_response(GETALL, Outcome(USE_ \o OTHER_DB).state, fs).resp
          = Json(<<Tick10>>)

\* "12.658, 139, f, t, 0.5, 7.6;", the shape of should_parse_string_okay's line
REC_12658 == RecordOf(<<"1", "2">>, <<"6", "5", "8">>, <<"1", "3", "9">>,
                      "f", "t", <<" ">>)

\* C16: for a well-formed record line whose ts field has exactly one decimal
\* point, parse_line returns an Update whose ts is the integer of the digits
\* on both sides of the point, concatenated, whose seq is the second field,
\* whose is_trade and is_bid are the flags of the third and fourth field
\* (t: true, f: false); the result is that of an earlier call on the same
\* line, whatever line the call before it had.
C16_ParseWellFormed ==
    pl.ret # NotCalled =>
      /\ \A w \in TsWhole, f \in TsFraction, s \in SeqFields,
            t \in Flags, b \in Flags, g \in Gaps :
            pl.string = RecordOf(w, f, s, t, b, g) =>
               /\ pl.ret.tag = "Some"
               /\ pl.ret.val.ts = DigitsValue(w \o f)
               /\ pl.ret.val.seq = DigitsValue(s)
               /\ pl.ret.val.is_trade = (t = "t")
               /\ pl.ret.val.is_bid = (b = "t")
      /\ (pl.earlier.ret # NotCalled /\ pl.earlier.string = pl.string) =>
            pl.earlier.ret = pl.ret

\* C16: after a call on another line, parse_line has returned for
\* "12.658, 139, f, t, 0.5, 7.6;" the Update with ts 12658, seq 139, is_trade
\* false and is_bid true
C16_Witness ==
    /\ pl.calls = 2
    /\ pl.earlier.string = REC_SEVEN
    /\ pl.string = REC_12658
    /\ pl.ret.tag = "Some"
    /\ pl.ret.val.ts = 12658
    /\ pl.ret.val.seq = 139
    /\ ~pl.ret.val.is_trade
    /\ pl.ret.val.is_bid

\* C17: a record line whose ts field has no decimal point, or more than one,
\* is malformed: parse_line returns the error, ADD and a bulk record line
\* answer it, and no Update is added to any Store.
C17_OneDecimalPoint ==
    alive =>
      \A l \in {REC_NODOT, REC_TWODOTS} :
         LET r == IF state.is_adding THEN Outcome(l) ELSE Outcome(ADD_ \o l)
         IN  /\ parse_line(l) = None
             /\ ~r.panic
             /\ r.resp = ERR
             /\ r.state.store = state.store

\* C18: in NORMAL state, after `CREATE <name>` the map holds under <name> a
\* Store with empty buffer, size 0 and in_memory false, in place of any entry
\* of that name, the current Store's included; every other Store, the current
\* store name, the mode and all files are unchanged.
C18_CreateEffect ==
    (alive /\ ~state.is_adding) =>
      \A n \in CreateNames \cup {OTHER_DB} :
         LET r == Outcome(CREATE_ \o n)
         IN  /\ ~r.panic
             /\ DOMAIN r.state.store = DOMAIN state.store \cup {n}
             /\ r.state.store[n] =
                   [name |-> n, v |-> <<>>, size |-> 0, in_memory |-> FALSE]
             /\ \A m \in DOMAIN state.store \ {n} :
                   r.state.store[m] = state.store[m]
             /\ r.state.current_store_name = state.current_store_name
             /\ r.state.is_adding = state.is_adding
             /\ r.fs = fs

\* C18: CREATE default.dtf has replaced the current Store default.dtf, whose
\* file holds a record: the entry is empty with size 0, where CLEAR and a new
\* connection would have read a count of 1
C18_Witness ==
    /\ alive /\ ~state.is_adding
    /\ state.current_store_name = DEFAULT_DTF
    /\ DEFAULT_DTF \in DOMAIN state.store
    /\ state.store[DEFAULT_DTF] = NewStore(DEFAULT_DTF, 0)
    /\ FileOf(DEFAULT_DTF) \in DOMAIN fs
    /\ fs[FileOf(DEFAULT_DTF)].count = 1
    /\ DEFAULT_DTF \in DOMAIN fs
    /\ fs[DEFAULT_DTF].count = 1

\* C19: in every state of a Session the current store name is a key of the
\* store map, so that the lookups of the current Store in GETALL, GET, CLEAR,
\* FLUSH, ADD and a bulk record line do not fail.
C19_CurrentIsKey ==
    alive =>
      /\ HasCurrent(state)
      /\ \A l \in {GETALL, CLEAR, FLUSH, GET_ \o <<"1">>} : ~Outcome(l).panic
      /\ ~(IF state.is_adding THEN Outcome(REC_10)
           ELSE Outcome(ADD_ \o REC_10)).panic

\* C19: after CREATE and USE the current store name is default.dtf, a key of
\* the map, and a bulk record line has been added to that Store
C19_Witness ==
    /\ alive /\ state.is_adding
    /\ state.current_store_name = DEFAULT_DTF
    /\ DOMAIN state.store = {DEFAULT, DEFAULT_DTF}
    /\ state.store[DEFAULT_DTF].v = <<Tick10>>
    /\ state.store[DEFAULT_DTF].size = 1

\* C20: FLUSH creates or modifies only the file <current store name>.dtf; it
\* leaves every Store (buffer, size, in_memory), the current store name, the
\* mode and every other file unchanged.
C20_FlushFrame ==
    alive =>
      LET r == Outcome(FLUSH)
          f == FileOf(state.current_store_name)
      IN  /\ ~r.panic
          /\ r.state = state
          /\ DOMAIN r.fs = DOMAIN fs \cup {f}
          /\ \A g \in DOMAIN fs \ {f} : r.fs[g] = fs[g]

\* C20: with the Store default buffering 10, never flushed, the current Store
\* default.dtf was flushed: its file default.dtf.dtf holds its buffer, no file
\* default.dtf was written, and the Stores are as they were
C20_Witness ==
    /\ alive
    /\ state.current_store_name = DEFAULT_DTF
    /\ DOMAIN state.store = {DEFAULT, DEFAULT_DTF}
    /\ state.store[DEFAULT].v = <<Tick10>>
    /\ state.store[DEFAULT_DTF].v = <<BlankUpdate>>
    /\ DOMAIN fs = {FileOf(DEFAULT_DTF)}
    /\ fs[FileOf(DEFAULT_DTF)].body = <<BlankUpdate>>

=============================================================================
